---- MODULE Spec2Model ----
(***************************************************************************)
(* Lifecycle controller of gui/process_manager.py: close_antigravity,      *)
(* start_antigravity and is_process_running, run against an OS process     *)
(* table whose processes may exit on their own while the controller works. *)
(*                                                                         *)
(* Strings are sequences of tokens; a token is a run of characters that no *)
(* other token of the model contains, so Python's substring test `a in b`  *)
(* is the contiguous-subsequence test on tokens and str.lower() maps each  *)
(* token to its lower-cased form.                                          *)
(* Time is counted in ticks; PollInterval ticks are one time.sleep(0.5).   *)
(***************************************************************************)
EXTENDS Integers, Sequences, FiniteSets, TLC

----------------------------------------------------------------------------
(* Bounds *)

\* at most this many processes besides the controller are alive at the start:
\* the process table holds the controller and a run of the catalogue
MaxProcs == 2
\* largest timeout (in ticks) passed to close_antigravity
MaxTimeout == 3

----------------------------------------------------------------------------
(* Program constants *)

\* time.sleep(0.5) of the polling loop, in ticks
PollInterval == 2
\* pid of the controller, os.getpid()
SelfPid == 1
\* a negative timeout, more than one polling interval below zero
MinTimeout == 0 - PollInterval - 1

----------------------------------------------------------------------------
(* Strings *)

\* str.lower() on one token
LowerTok(t) ==
    CASE t = "Antigravity" -> "antigravity"
      [] t = "ANTIGRAVITY" -> "antigravity"
      [] t = "Manager"     -> "manager"
      [] t = "Helper"      -> "helper"
      [] t = "Updater"     -> "updater"
      [] t = "Task"        -> "task"
      [] t = "Apps"        -> "apps"
      [] t = "Contents"    -> "contents"
      [] t = ".EXE"        -> ".exe"
      [] t = ".App"        -> ".app"
      [] OTHER             -> t

\* str.lower()
Lower(s) == [i \in 1..Len(s) |-> LowerTok(s[i])]

\* Python's `needle in hay` on strings
Contains(needle, hay) ==
    \E i \in 0..(Len(hay) - Len(needle)) :
        SubSeq(hay, i + 1, i + Len(needle)) = needle

\* index of the last path separator of p, 0 when there is none
LastSep(p) ==
    IF \E i \in 1..Len(p) : p[i] = "/"
    THEN CHOOSE i \in 1..Len(p) :
            p[i] = "/" /\ \A j \in (i + 1)..Len(p) : p[j] # "/"
    ELSE 0

\* os.path.dirname of an absolute, normalised path
Dirname(p) ==
    IF LastSep(p) <= 1 THEN SubSeq(p, 1, LastSep(p))
    ELSE SubSeq(p, 1, LastSep(p) - 1)

\* os.path.basename
Basename(p) == SubSeq(p, LastSep(p) + 1, Len(p))

\* a value psutil reports: a string, or None when the read was denied
Str(s) == [some |-> TRUE, str |-> s]
None == [some |-> FALSE, str |-> <<>>]

\* Python truthiness of a reported value: neither None nor ""
Truthy(v) == v.some /\ v.str # <<>>

\* `v.lower() if v else ""`
LowerOrEmpty(v) == IF Truthy(v) THEN Lower(v.str) ELSE <<>>

----------------------------------------------------------------------------
(* The process table *)

\* candidates for sys.executable: the packaged controller, the interpreter
Executables ==
    { <<"/", "Apps", "/", "Antigravity", " ", "Manager", "/",
        "Antigravity", " ", "Manager", ".exe">>,
      <<"/", "usr", "/", "bin", "/", "python">> }

\* what psutil reports (name, exe) for the processes besides the controller,
\* in pid order
Catalogue ==
    <<  \* pid 1 is the controller, see Info
        [name |-> None, exe |-> None],
        \* 2: the Windows application
        [name |-> Str(<<"Antigravity", ".exe">>),
         exe  |-> Str(<<"/", "Apps", "/", "Antigravity", "/",
                        "Antigravity", ".exe">>)],
        \* 3: a companion whose name holds "manager", installed with the application
        [name |-> Str(<<"Task", "Manager", ".exe">>),
         exe  |-> Str(<<"/", "Apps", "/", "Antigravity", "/",
                        "Task", "Manager", ".exe">>)],
        \* 4: an unrelated process, name not readable
        [name |-> None,
         exe  |-> Str(<<"/", "usr", "/", "bin", "/", "python">>)],
        \* 5: the macOS application, inside its bundle
        [name |-> Str(<<"Antigravity">>),
         exe  |-> Str(<<"/", "Apps", "/", "Antigravity", ".app", "/",
                        "Contents", "/", "Antigravity">>)],
        \* 6: a macOS helper inside the application bundle
        [name |-> Str(<<"Antigravity", " ", "Helper">>),
         exe  |-> Str(<<"/", "Apps", "/", "Antigravity", ".app", "/",
                        "Contents", "/", "Helper">>)],
        \* 7: an unrelated process with a similar name
        [name |-> Str(<<"Antigravity", " ", "Updater">>),
         exe  |-> Str(<<"/", "opt", "/", "updater">>)],
        \* 8: a second manager process, run from the packaged controller's directory
        [name |-> Str(<<"Antigravity", " ", "Manager", ".exe">>),
         exe  |-> Str(<<"/", "Apps", "/", "Antigravity", " ", "Manager", "/",
                        "Antigravity", " ", "Manager", ".exe">>)],
        \* 9: a process of another user, neither name nor path readable
        [name |-> None, exe |-> None],
        \* 10: an application binary inside the packaged controller's directory
        [name |-> Str(<<"ANTIGRAVITY", ".EXE">>),
         exe  |-> Str(<<"/", "Apps", "/", "Antigravity", " ", "Manager", "/",
                        "bin", "/", "ANTIGRAVITY", ".EXE">>)],
        \* 11: the application, executable path not readable
        [name |-> Str(<<"antigravity">>), exe |-> None],
        \* 12: the application run from the interpreter's directory
        [name |-> Str(<<"antigravity">>),
         exe  |-> Str(<<"/", "usr", "/", "bin", "/", "antigravity">>)] >>

Pids == 1..Len(Catalogue)

VARIABLES
    system,            \* platform.system()
    sys_executable,    \* sys.executable of the controller
    alive,             \* the pids of the processes that exist
    pc,                \* position of the controller
    timeout,           \* close_antigravity's timeout, in ticks
    force_kill,        \* close_antigravity's force_kill
    target_processes,  \* handles (pids) collected by the enumeration
    still_running,     \* handles found alive by the last liveness poll
    still_running_bound, \* whether the local still_running was ever assigned
    final_check,       \* handles found alive by the final check
    idx,               \* position of the running for-loop in its list
    elapsed,           \* time.time() - start_time, in ticks
    result,            \* what close_antigravity returned, "none" before
    quit_request,      \* outcome of the platform quit request, "none" before
    grace_waited,      \* the 2s grace wait after the quit request was taken
    sigterm,           \* pids on which proc.terminate() was called
    sigkill,           \* pids on which proc.kill() was called
    alive_at_timeout,  \* the targets alive when the polling loop was left
    alive_at_call,     \* the processes alive when close_antigravity was called
    left_phase1_at,    \* elapsed when the polling loop was left, -1 before
    fault,             \* the exception that reached a top-level handler
    query_failed,      \* some proc.is_running() raised
    exited,            \* the processes that exited on their own
    use_uri,           \* start_antigravity's use_uri in the running frame
    start_use_uri,     \* use_uri of the caller's start_antigravity call
    uri_outcome,       \* outcome of open_uri, "none" when it was not called
    native_outcomes,   \* outcomes of the path-based launches, in order
    start_result,      \* what start_antigravity returned, "none" before
    running,           \* what is_process_running returned, "none" before
    quit_directed,     \* the processes the platform quit request addressed
    scans,             \* how often close_antigravity enumerated the process table
    step_fault         \* the exception met in the latest step of a signalling loop

\* set by the platform and the interpreter, never assigned
hostVars == << system, sys_executable >>
\* the arguments and locals of close_antigravity
closeVars == << timeout, force_kill, target_processes, still_running,
                still_running_bound, final_check, idx, elapsed, result >>
\* what the controller did to the outside, and what it met there
traceVars == << quit_request, grace_waited, sigterm, sigkill,
                alive_at_timeout, alive_at_call, left_phase1_at, fault,
                query_failed, exited >>
\* the arguments and locals of start_antigravity
startVars == << use_uri, start_use_uri, uri_outcome, native_outcomes,
                start_result >>

\* the result of is_process_running
queryVars == << running >>

\* the reach of the quit request and the number of enumerations
requestVars == << quit_directed, scans >>

\* what the latest iteration of the SIGTERM or SIGKILL loop met
loopVars == << step_fault >>

vars == << hostVars, alive, pc, closeVars, traceVars, startVars, queryVars,
          requestVars, loopVars >>

\* what psutil reports for process p
Info(p) ==
    IF p = SelfPid
    THEN [name |-> Str(Basename(sys_executable)), exe |-> Str(sys_executable)]
    ELSE Catalogue[p]

process_name_lower(p) == LowerOrEmpty(Info(p).name)
exe_path(p) == LowerOrEmpty(Info(p).exe)

\* os.path.dirname(os.path.abspath(sys.executable)).lower(); sys.executable
\* is absolute and normalised, which abspath leaves as it is
current_dir == Lower(Dirname(sys_executable))

----------------------------------------------------------------------------
(* Classification *)

\* IsAntigravity whose Linux branch forgets the path test
IsAntigravity_NameOnly(p) ==
    IF system = "Darwin"
    THEN Contains(<<"antigravity", ".app">>, exe_path(p))
    ELSE IF system = "Windows"
    THEN \/ process_name_lower(p) \in {<<"antigravity", ".exe">>, <<"antigravity">>}
         \/ Contains(<<"antigravity">>, exe_path(p))
    ELSE process_name_lower(p) = <<"antigravity">>

\* is_process_running's rule for one process
IsAntigravity(p) ==
    IF system = "Darwin"
    THEN Contains(<<"antigravity", ".app">>, exe_path(p))
    ELSE IF system = "Windows"
    THEN \/ process_name_lower(p) \in {<<"antigravity", ".exe">>, <<"antigravity">>}
         \/ Contains(<<"antigravity">>, exe_path(p))
    ELSE \/ process_name_lower(p) = <<"antigravity">>
         \/ Contains(<<"antigravity">>, exe_path(p))

\* ExcludeSelf without the directory test
ExcludeSelf_PidOnly(p) == p = SelfPid

\* the two `continue`s that keep the controller out of the target list
ExcludeSelf(p) ==
    \/ p = SelfPid
    \/ exe_path(p) # <<>> /\ Contains(current_dir, exe_path(p))

is_target_name(p) ==
    process_name_lower(p) \in {<<"antigravity", ".exe">>, <<"antigravity">>}
is_in_path(p) == Contains(<<"antigravity">>, exe_path(p))
is_manager(p) == Contains(<<"manager">>, process_name_lower(p))

\* is_antigravity whose Windows branch forgets `and not is_manager`
is_antigravity_NoManagerRule(p) ==
    IF system = "Darwin"
    THEN Contains(<<"antigravity", ".app">>, exe_path(p))
    ELSE IF system = "Windows"
    THEN is_target_name(p) \/ is_in_path(p)
    ELSE \/ process_name_lower(p) = <<"antigravity">>
         \/ Contains(<<"antigravity">>, exe_path(p))

\* close_antigravity's is_antigravity for one process
is_antigravity(p) ==
    IF system = "Darwin"
    THEN Contains(<<"antigravity", ".app">>, exe_path(p))
    ELSE IF system = "Windows"
    THEN is_target_name(p) \/ (is_in_path(p) /\ ~is_manager(p))
    ELSE \/ process_name_lower(p) = <<"antigravity">>
         \/ Contains(<<"antigravity">>, exe_path(p))

\* whether the enumeration of close_antigravity appends process p
IsTargetForShutdown(p) == ~ExcludeSelf(p) /\ is_antigravity(p)

\* psutil.process_iter in pid order, filtered as close_antigravity filters it
Enumerate ==
    SelectSeq([i \in Pids |-> i],
              LAMBDA p : p \in alive /\ IsTargetForShutdown(p))

Range(s) == {s[i] : i \in 1..Len(s)}

----------------------------------------------------------------------------
(* The environment *)

\* outcomes of proc.is_running(): its value, a psutil error, another error
IsRunningOutcomes(p) ==
    IF p \in alive THEN {"true", "denied", "error"} ELSE {"false"}

\* outcomes of proc.kill() on a live process: it dies; it stays (access
\* denied, or a signal without effect); kill() raises another error
KillOutcomes == {"killed", "denied", "error"}

\* outcomes of the quit utility (osascript, taskkill): return code 0, another
\* return code, an exception (utility missing, TimeoutExpired after 3s)
QuitOutcomes == {"ok", "nonzero", "raised"}

\* the timeouts a caller passes: negative, zero, shorter than one polling
\* interval, and the largest
Timeouts == {MinTimeout, 0, 1, MaxTimeout}

\* the positions inside close_antigravity
ClosePcs == {"phase0", "enumerate", "terminate", "poll_head", "poll",
             "sleep", "kill", "final"}

Init ==
    /\ system \in {"Darwin", "Windows", "Linux", "Other"}
    /\ sys_executable \in Executables
    /\ \E lo \in Pids \ {SelfPid}, n \in 0..MaxProcs :
         /\ lo + n - 1 \in Pids
         /\ alive = {SelfPid} \cup lo..(lo + n - 1)
    /\ pc = "idle"
    /\ timeout = 0
    /\ force_kill = TRUE
    /\ target_processes = <<>>
    /\ still_running = <<>>
    /\ still_running_bound = FALSE
    /\ final_check = <<>>
    /\ idx = 1
    /\ elapsed = 0
    /\ result = "none"
    /\ quit_request = "none"
    /\ grace_waited = FALSE
    /\ sigterm = {}
    /\ sigkill = {}
    /\ alive_at_timeout = {}
    /\ alive_at_call = {}
    /\ left_phase1_at = 0 - 1
    /\ fault = "none"
    /\ query_failed = FALSE
    /\ exited = {}
    /\ use_uri = TRUE
    /\ start_use_uri = TRUE
    /\ uri_outcome = "none"
    /\ native_outcomes = <<>>
    /\ start_result = "none"
    /\ running = "none"
    /\ quit_directed = {}
    /\ scans = 0
    /\ step_fault = "none"

\* an application process the controller may shut down, or one the quit
\* request addressed, exits while close_antigravity is at work
Exit(p) ==
    /\ pc \in ClosePcs
    /\ p \in alive
    /\ IF pc \in {"phase0", "enumerate"}
       THEN IsTargetForShutdown(p) \/ p \in quit_directed
       ELSE p \in Range(target_processes)
    /\ alive' = alive \ {p}
    /\ exited' = exited \cup {p}
    /\ UNCHANGED << hostVars, pc, closeVars, quit_request, grace_waited,
                    sigterm, sigkill, alive_at_timeout, alive_at_call,
                    left_phase1_at, fault, query_failed, startVars, queryVars,
                    requestVars, loopVars >>

----------------------------------------------------------------------------
(* close_antigravity *)

\* `return v` inside the try block
Return(v) ==
    /\ pc' = "closed"
    /\ result' = v
    /\ fault' = fault

\* a handler that matches the psutil errors only
IsException_PsutilOnly(e) == e \in {"NoSuchProcess", "AccessDenied"}

\* the exception classes met here; all of them derive from Exception
IsException(e) ==
    e \in {"UnboundLocalError", "OSError", "NoSuchProcess", "AccessDenied"}

\* `except Exception as e:` of close_antigravity: a fault it matches becomes
\* `return False`, any other leaves the function as an exception
TopLevelHandler(e) ==
    /\ fault' = e
    /\ IF IsException(e)
       THEN /\ pc' = "closed"
            /\ result' = "Failed"
       ELSE /\ pc' = "raised"
            /\ result' = result

\* the for-loop moves to its next handle, or to `next` after the last one
Advance(list, next) ==
    IF idx < Len(list)
    THEN /\ idx' = idx + 1
         /\ pc' = pc
    ELSE /\ idx' = 1
         /\ pc' = next

CloseCall(t, fk) ==
    /\ pc = "idle"
    /\ timeout' = t
    /\ force_kill' = fk
    /\ alive_at_call' = alive
    /\ pc' = "phase0"
    /\ UNCHANGED << hostVars, alive, target_processes, still_running,
                    still_running_bound, final_check, idx, elapsed, result,
                    quit_request, grace_waited, sigterm, sigkill,
                    alive_at_timeout, left_phase1_at, fault, query_failed,
                    exited, startVars, queryVars,
                    requestVars, loopVars >>

\* a quit utility on Linux as well
HasQuitUtility_AlsoLinux(s) == s \in {"Darwin", "Windows", "Linux"}

\* `if system == "Darwin":` / `elif system == "Windows":`
HasQuitUtility(s) == s \in {"Darwin", "Windows"}

\* the processes the quit utility addresses.
\* Windows, `taskkill /IM Antigravity.exe /T`: every process whose image name
\* is Antigravity.exe, compared without regard to case.
\* Darwin, `tell application "Antigravity" to quit`: the process of the
\* application Antigravity, the executable named so inside Antigravity.app.
QuitTargets ==
    IF system = "Windows"
    THEN {p \in alive : process_name_lower(p) = <<"antigravity", ".exe">>}
    ELSE IF system = "Darwin"
    THEN {p \in alive : /\ process_name_lower(p) = <<"antigravity">>
                        /\ Contains(<<"antigravity", ".app">>, exe_path(p))}
    ELSE {}

\* a grace wait after every outcome of the quit request
GraceWait_Always(o) == TRUE

\* `if result.returncode == 0:` time.sleep(2)
GraceWait(o) == o = "ok"

\* Darwin, Windows: the quit utility is run; every failure is swallowed and
\* the 2s wait is taken only on return code 0
QuitRequest(o) ==
    /\ pc = "phase0"
    /\ HasQuitUtility(system)
    /\ quit_request' = o
    /\ grace_waited' = GraceWait(o)
    /\ quit_directed' = IF o = "ok" THEN QuitTargets ELSE {}
    /\ pc' = "enumerate"
    /\ UNCHANGED << hostVars, alive, closeVars, sigterm, sigkill,
                    alive_at_timeout, alive_at_call, left_phase1_at, fault,
                    query_failed, exited, startVars, queryVars, scans,
                    loopVars >>

\* Linux and unknown platforms: no quit request
SkipQuit ==
    /\ pc = "phase0"
    /\ ~HasQuitUtility(system)
    /\ pc' = "enumerate"
    /\ UNCHANGED << hostVars, alive, closeVars, traceVars, startVars, queryVars,
                    requestVars, loopVars >>

\* the enumeration and the empty-targets return
Collect ==
    /\ pc = "enumerate"
    /\ target_processes' = Enumerate
    /\ scans' = scans + 1
    /\ IF Enumerate = <<>>
       THEN /\ Return("Success")
            /\ idx' = idx
       ELSE /\ pc' = "terminate"
            /\ idx' = 1
            /\ UNCHANGED << result, fault >>
    /\ UNCHANGED << hostVars, alive, timeout, force_kill, still_running,
                    still_running_bound, final_check, elapsed, quit_request,
                    grace_waited, sigterm, sigkill, alive_at_timeout,
                    alive_at_call, left_phase1_at, query_failed, exited,
                    startVars, queryVars, quit_directed, loopVars >>

\* the exception an outcome of proc.is_running() stands for
QueryFault(o) ==
    IF o = "denied" THEN "AccessDenied"
    ELSE IF o = "error" THEN "OSError"
    ELSE "none"

\* one iteration of the SIGTERM loop: terminate() is called on a handle that
\* is_running() reports alive; every exception of either call is swallowed,
\* so whether terminate() itself raised changes nothing.
\* After the last handle, start_time is taken.
Terminate(o) ==
    /\ pc = "terminate"
    /\ LET p == target_processes[idx] IN
       /\ o \in IsRunningOutcomes(p)
       /\ sigterm' = IF o = "true" THEN sigterm \cup {p} ELSE sigterm
       /\ query_failed' = (query_failed \/ o \in {"denied", "error"})
       /\ step_fault' = QueryFault(o)
    /\ Advance(target_processes, "poll_head")
    /\ elapsed' = 0
    /\ UNCHANGED << hostVars, alive, timeout, force_kill, target_processes,
                    still_running, still_running_bound, final_check, result,
                    quit_request, grace_waited, sigkill, alive_at_timeout,
                    alive_at_call, left_phase1_at, fault, exited,
                    startVars, queryVars, requestVars >>

\* a loop that stops when another sleep would not fit into the timeout
LoopCondition_Early(e, t) == e + PollInterval < t

\* `while time.time() - start_time < timeout:`
LoopCondition(e, t) == e < t

\* the loop condition holds, a poll round begins
PollBegin ==
    /\ pc = "poll_head"
    /\ LoopCondition(elapsed, timeout)
    /\ still_running' = <<>>
    /\ still_running_bound' = TRUE
    /\ idx' = 1
    /\ pc' = "poll"
    /\ step_fault' = "none"
    /\ UNCHANGED << hostVars, alive, timeout, force_kill, target_processes,
                    final_check, elapsed, result, traceVars, startVars,
                    queryVars, requestVars >>

\* one liveness query of a poll round; a psutil error skips the handle, and
\* after the last handle an empty still_running returns True
Poll(o) ==
    /\ pc = "poll"
    /\ LET p == target_processes[idx]
           found == IF o = "true" THEN Append(still_running, p)
                    ELSE still_running
       IN
       /\ o \in IsRunningOutcomes(p)
       /\ IF o = "error"
          THEN /\ TopLevelHandler("OSError")
               /\ UNCHANGED << still_running, idx >>
               /\ query_failed' = TRUE
          ELSE /\ still_running' = found
               /\ query_failed' = (query_failed \/ o = "denied")
               /\ IF idx = Len(target_processes) /\ found = <<>>
                  THEN /\ Return("Success")
                       /\ idx' = idx
                  ELSE /\ Advance(target_processes, "sleep")
                       /\ UNCHANGED << result, fault >>
    /\ UNCHANGED << hostVars, alive, timeout, force_kill, target_processes,
                    still_running_bound, final_check, elapsed, quit_request,
                    grace_waited, sigterm, sigkill, alive_at_timeout,
                    alive_at_call, left_phase1_at, exited, startVars, queryVars,
                    requestVars, loopVars >>

\* a sleep during which the clock stands still
Slept_NoProgress(e) == e

\* time.time() - start_time after a time.sleep(0.5) that began at e
Slept(e) == e + PollInterval

\* time.sleep(0.5)
Sleep ==
    /\ pc = "sleep"
    /\ elapsed' = Slept(elapsed)
    /\ pc' = "poll_head"
    /\ UNCHANGED << hostVars, alive, timeout, force_kill, target_processes,
                    still_running, still_running_bound, final_check, idx,
                    result, traceVars, startVars, queryVars,
                    requestVars, loopVars >>

\* the loop condition fails: `if still_running:` and `if force_kill:`.
\* Reading still_running before any assignment raises UnboundLocalError.
PollEnd ==
    /\ pc = "poll_head"
    /\ ~LoopCondition(elapsed, timeout)
    /\ left_phase1_at' = elapsed
    /\ alive_at_timeout' = Range(target_processes) \cap alive
    /\ IF ~still_running_bound
       THEN TopLevelHandler("UnboundLocalError")
       ELSE IF still_running # <<>>
       THEN IF force_kill
            THEN /\ pc' = "kill"
                 /\ UNCHANGED << result, fault >>
            ELSE Return("Failed")
       ELSE Return("Success")
    /\ idx' = 1
    /\ step_fault' = "none"
    /\ UNCHANGED << hostVars, alive, timeout, force_kill, target_processes,
                    still_running, still_running_bound, final_check, elapsed,
                    quit_request, grace_waited, sigterm, sigkill,
                    alive_at_call, query_failed, exited, startVars, queryVars,
                    requestVars >>

\* kill() called on every handle of still_running, whatever is_running() says
ShouldKill_Unguarded(o) == TRUE

\* `if proc.is_running(): proc.kill()`: kill() is called when the query
\* returned True
ShouldKill(o) == o = "true"

\* the exception one iteration of the SIGKILL loop meets: that of
\* is_running(), or that of kill() when it is called
KillFault(o, k) ==
    IF QueryFault(o) # "none" THEN QueryFault(o)
    ELSE IF ShouldKill(o) /\ k = "denied" THEN "AccessDenied"
    ELSE IF ShouldKill(o) /\ k = "error" THEN "OSError"
    ELSE "none"

\* a SIGKILL loop whose handler matches nothing
LoopSwallows_Nothing(e) == FALSE

\* `except (psutil.NoSuchProcess, psutil.AccessDenied): continue`
LoopSwallows(e) == e \in {"NoSuchProcess", "AccessDenied"}

\* one iteration of the SIGKILL loop: kill() is called on a handle that
\* is_running() reports alive; only psutil errors are swallowed.
\* After the last handle comes time.sleep(1) and the final check begins.
Kill(o, k) ==
    /\ pc = "kill"
    /\ LET p == still_running[idx] IN
       /\ o \in IsRunningOutcomes(p)
       /\ k \in KillOutcomes
       /\ sigkill' = IF ShouldKill(o) THEN sigkill \cup {p} ELSE sigkill
       /\ alive' = IF ShouldKill(o) /\ k = "killed" THEN alive \ {p}
                   ELSE alive
       /\ query_failed' = (query_failed \/ o \in {"denied", "error"})
       /\ step_fault' = KillFault(o, k)
       /\ IF KillFault(o, k) # "none" /\ ~LoopSwallows(KillFault(o, k))
          THEN /\ TopLevelHandler(KillFault(o, k))
               /\ UNCHANGED << idx, final_check >>
          ELSE /\ Advance(still_running, "final")
               /\ final_check' = <<>>
               /\ UNCHANGED << result, fault >>
    /\ UNCHANGED << hostVars, timeout, force_kill, target_processes,
                    still_running, still_running_bound, elapsed, quit_request,
                    grace_waited, sigterm, alive_at_timeout, alive_at_call,
                    left_phase1_at, exited, startVars, queryVars,
                    requestVars >>

\* a final check that reports failure whenever the forced kill was needed
FinalResult_AlwaysFailed(found) == "Failed"

\* `if not final_check: return True` / `else: return False`
FinalResult(found) == IF found = <<>> THEN "Success" ELSE "Failed"

\* one liveness query of the final check; after the last handle the result
FinalCheck(o) ==
    /\ pc = "final"
    /\ LET p == still_running[idx]
           found == IF o = "true" THEN Append(final_check, p)
                    ELSE final_check
       IN
       /\ o \in IsRunningOutcomes(p)
       /\ IF o = "error"
          THEN /\ TopLevelHandler("OSError")
               /\ UNCHANGED << final_check, idx >>
               /\ query_failed' = TRUE
          ELSE /\ final_check' = found
               /\ query_failed' = (query_failed \/ o = "denied")
               /\ IF idx = Len(still_running)
                  THEN /\ Return(FinalResult(found))
                       /\ idx' = idx
                  ELSE /\ Advance(still_running, "final")
                       /\ UNCHANGED << result, fault >>
    /\ step_fault' = "none"
    /\ UNCHANGED << hostVars, alive, timeout, force_kill, target_processes,
                    still_running, still_running_bound, elapsed, quit_request,
                    grace_waited, sigterm, sigkill, alive_at_timeout,
                    alive_at_call, left_phase1_at, exited, startVars,
                    queryVars, requestVars >>

----------------------------------------------------------------------------
(* start_antigravity *)

\* outcomes of open_uri: its value, or an exception
UriOutcomes == {"true", "false", "raise"}

\* outcomes of the path-based launch on each platform: the spawn is accepted,
\* the spawn raises, the Windows executable is not found (return False), or,
\* on an unknown platform, no branch is taken and nothing is spawned
NativeOutcomes ==
    IF system = "Windows" THEN {"spawned", "raise", "notfound"}
    ELSE IF system \in {"Darwin", "Linux"} THEN {"spawned", "raise"}
    ELSE {"nospawn"}

StartCall(u) ==
    /\ pc = "idle"
    /\ use_uri' = u
    /\ start_use_uri' = u
    /\ pc' = IF u THEN "start_uri" ELSE "start_native"
    /\ UNCHANGED << hostVars, alive, closeVars, traceVars, queryVars,
                    requestVars, loopVars, uri_outcome,
                    native_outcomes, start_result >>

\* `if use_uri:` open_uri(uri). True returns True, False falls through to the
\* path-based launch, an exception reaches the handler, where use_uri holds:
\* `return start_antigravity(use_uri=False)`
OpenUri(o) ==
    /\ pc = "start_uri"
    /\ uri_outcome' = o
    /\ IF o = "true"
       THEN /\ pc' = "started"
            /\ start_result' = "true"
            /\ use_uri' = use_uri
       ELSE /\ pc' = "start_native"
            /\ start_result' = start_result
            /\ use_uri' = IF o = "raise" THEN FALSE ELSE use_uri
    /\ UNCHANGED << hostVars, alive, closeVars, traceVars, queryVars,
                    requestVars, loopVars, start_use_uri,
                    native_outcomes >>

\* the path-based launch. An exception reaches the handler: with use_uri the
\* function calls itself with use_uri=False, which launches by path again;
\* without it the function returns False.
NativeLaunch(o) ==
    /\ pc = "start_native"
    /\ o \in NativeOutcomes
    /\ native_outcomes' = Append(native_outcomes, o)
    /\ IF o = "raise" /\ use_uri
       THEN /\ use_uri' = FALSE
            /\ pc' = pc
            /\ start_result' = start_result
       ELSE /\ use_uri' = use_uri
            /\ pc' = "started"
            /\ start_result' = IF o \in {"spawned", "nospawn"}
                               THEN "true" ELSE "false"
    /\ UNCHANGED << hostVars, alive, closeVars, traceVars, queryVars,
                    requestVars, loopVars, start_use_uri,
                    uri_outcome >>

----------------------------------------------------------------------------
(* is_process_running *)

RECURSIVE ScanFrom(_)
\* the for-loop over psutil.process_iter from pid p on: `return True` at the
\* first live process the rule accepts, `return False` after the last
ScanFrom(p) ==
    IF p > Len(Catalogue) THEN "false"
    ELSE IF p \in alive /\ IsAntigravity(p) THEN "true"
    ELSE ScanFrom(p + 1)

\* a call of is_process_running, before or after close_antigravity
IsProcessRunning ==
    /\ pc \in {"idle", "closed"}
    /\ running = "none"
    /\ running' = ScanFrom(1)
    /\ pc' = IF pc = "idle" THEN "queried" ELSE pc
    /\ UNCHANGED << hostVars, alive, closeVars, traceVars, startVars,
                    requestVars, loopVars >>

----------------------------------------------------------------------------
Next ==
    \/ \E t \in Timeouts, fk \in BOOLEAN : CloseCall(t, fk)
    \/ \E o \in QuitOutcomes : QuitRequest(o)
    \/ SkipQuit
    \/ Collect
    \/ \E o \in {"true", "false", "denied", "error"} : Terminate(o)
    \/ PollBegin
    \/ \E o \in {"true", "false", "denied", "error"} : Poll(o)
    \/ Sleep
    \/ PollEnd
    \/ \E o \in {"true", "false", "denied", "error"}, k \in KillOutcomes :
          Kill(o, k)
    \/ \E o \in {"true", "false", "denied", "error"} : FinalCheck(o)
    \/ \E p \in Pids : Exit(p)
    \/ \E u \in BOOLEAN : StartCall(u)
    \/ \E o \in UriOutcomes : OpenUri(o)
    \/ \E o \in {"spawned", "raise", "notfound", "nospawn"} : NativeLaunch(o)
    \/ IsProcessRunning

Spec == Init /\ [][Next]_vars

\* the steps of close_antigravity itself
CloseStep ==
    \/ \E o \in QuitOutcomes : QuitRequest(o)
    \/ SkipQuit
    \/ Collect
    \/ \E o \in {"true", "false", "denied", "error"} : Terminate(o)
    \/ PollBegin
    \/ \E o \in {"true", "false", "denied", "error"} : Poll(o)
    \/ Sleep
    \/ PollEnd
    \/ \E o \in {"true", "false", "denied", "error"}, k \in KillOutcomes :
          Kill(o, k)
    \/ \E o \in {"true", "false", "denied", "error"} : FinalCheck(o)

\* close_antigravity is straight-line code on one thread and every call it
\* makes returns: subprocess.run is given timeout=3, the sleeps are finite,
\* the psutil calls do not block. So its next step is always taken.
LiveSpec == Spec /\ WF_vars(CloseStep)

----------------------------------------------------------------------------
(* Properties *)

\* the positions after the enumeration of close_antigravity
AfterScan == {"terminate", "poll_head", "poll", "sleep", "kill", "final",
              "closed"}

\* path lies under directory dir
LiesUnder(path, dir) ==
    /\ Len(path) > Len(dir) + 1
    /\ SubSeq(path, 1, Len(dir)) = dir
    /\ path[Len(dir) + 1] = "/"

\* the executable path reported for p is non-empty and lies under the
\* directory of the controller's executable
UnderSelfDir(p) ==
    /\ Truthy(Info(p).exe)
    /\ LiesUnder(Info(p).exe.str, Dirname(sys_executable))

\* C1 (self-exclusion): no handle of target_processes, still_running or
\* final_check has the controller's pid or a non-empty executable path under
\* the controller's directory.
C1_SelfExclusion ==
    \A p \in Range(target_processes) \cup Range(still_running)
             \cup Range(final_check) :
        p # SelfPid /\ ~UnderSelfDir(p)

\* C1 witness: the scan has collected targets and left out a live process
\* that runs from the controller's directory and matches the target rule,
\* while the controller itself matches the detection rule.
C1_Witness ==
    /\ pc = "terminate"
    /\ target_processes # <<>>
    /\ IsAntigravity(SelfPid)
    /\ \E p \in alive \ {SelfPid} :
         UnderSelfDir(p) /\ is_antigravity(p) /\ p \notin Range(target_processes)

\* C2 (phase ordering): kill() is called only on a target that was alive when
\* the polling loop was left, and the loop was left no earlier than the
\* timeout; a target that exited before that moment gets no kill().
C2_PhaseOrdering ==
    \A p \in sigkill :
        /\ p \in Range(target_processes)
        /\ p \in alive_at_timeout
        /\ left_phase1_at >= timeout

\* C2 witness: a forced kill was sent, and a handle that the last poll found
\* alive exited before the timeout ended and got no kill().
C2_Witness ==
    /\ pc = "closed"
    /\ sigkill # {}
    /\ \E p \in Range(still_running) :
         p \notin alive_at_timeout /\ p \notin sigkill

\* C3 (forced-kill opt-out), as claimed: when close_antigravity ran with
\* force_kill=False and a target is alive at the end of Phase 1, that is, at
\* the return, the result is Failed and kill() was never called.
C3_ForcedKillOptOut ==
    (pc = "closed" /\ ~force_kill /\ Range(target_processes) \cap alive # {})
        => (result = "Failed" /\ sigkill = {})

\* no process alive at the call is one that close_antigravity would collect
NoTargetAtCall == \A p \in alive_at_call : ~IsTargetForShutdown(p)

\* C4 (idempotence), as claimed: with no target at the call the result is
\* Success and nothing was attempted: no quit request, no grace wait, no
\* terminate(), no kill().
C4_Idempotence ==
    (pc = "closed" /\ NoTargetAtCall)
        => /\ result = "Success"
           /\ quit_request = "none"
           /\ ~grace_waited
           /\ sigterm = {}
           /\ sigkill = {}

\* C4 amended: with no target at the call the result is Success, without a
\* fault, and neither terminate() nor kill() is called; on Linux and unknown
\* platforms no quit request is made either, while on macOS and Windows the
\* quit request is made first and the 2s wait follows when it reports 0.
C4_IdempotenceAmended ==
    (pc = "closed" /\ NoTargetAtCall)
        => /\ result = "Success"
           /\ fault = "none"
           /\ target_processes = <<>>
           /\ sigterm = {}
           /\ sigkill = {}
           /\ system \in {"Linux", "Other"}
                => (quit_request = "none" /\ ~grace_waited)
           /\ system \in {"Darwin", "Windows"}
                => (quit_request # "none"
                    /\ grace_waited = (quit_request = "ok"))

\* C4 witness: close_antigravity has returned from a call with other processes
\* but no target around, after an accepted quit request.
C4_Witness ==
    /\ pc = "closed"
    /\ NoTargetAtCall
    /\ alive_at_call # {SelfPid}
    /\ quit_request = "ok"

\* the outcome of a path-based launch that makes start_antigravity return True
NativeAccepted(o) == o \in {"spawned", "nospawn"}

\* C5 (launch fallback), as claimed: when start_antigravity(use_uri=True) met
\* a failing open_uri, the path-based launch ran exactly once and the result
\* is the result of that one attempt.
C5_LaunchFallback ==
    (pc = "started" /\ start_use_uri /\ uri_outcome \in {"false", "raise"})
        => /\ Len(native_outcomes) = 1
           /\ start_result = IF NativeAccepted(native_outcomes[1])
                             THEN "true" ELSE "false"

\* C6 (no fault propagates): close_antigravity never ends by raising; it ends
\* with Success or Failed, and with Failed when a fault reached the top-level
\* handler.
C6_NeverPropagates ==
    /\ pc # "raised"
    /\ pc = "closed" => result \in {"Success", "Failed"}
    /\ fault # "none" => (pc = "closed" /\ result = "Failed")

\* C6 witness: a negative timeout made the read of still_running fail, and
\* the call returned Failed.
C6_Witness ==
    /\ pc = "closed"
    /\ timeout < 0
    /\ fault = "UnboundLocalError"
    /\ result = "Failed"

\* Phase 1 was left: by the loop condition, or by a fault inside the polling
\* loop that made the call return Failed
Phase1Left ==
    \/ left_phase1_at >= 0
    \/ pc = "closed" /\ result = "Failed" /\ target_processes # <<>>

\* the time since start_time at which Phase 1 was left
Phase1LeftAt == IF left_phase1_at >= 0 THEN left_phase1_at ELSE elapsed

\* no target had exited when Phase 1 was left
NeverResponded ==
    IF left_phase1_at >= 0
    THEN alive_at_timeout = Range(target_processes)
    ELSE Range(target_processes) \subseteq alive

WindowsEligible(p) ==
    LET name == LowerOrEmpty(Info(p).name)
        path == LowerOrEmpty(Info(p).exe)
    IN  \/ name = <<"antigravity", ".exe">>
        \/ name = <<"antigravity">>
        \/ (Contains(<<"antigravity">>, path) /\ ~Contains(<<"manager">>, name))

\* C8 (Windows manager-exclusion): on Windows every collected handle passes
\* the rule and every live process that the self rules do not exclude is
\* collected exactly when it passes the rule.
C8_WindowsManagerExclusion ==
    (system = "Windows" /\ pc \in AfterScan)
        => \A p \in Pids :
              /\ p \in Range(target_processes)
                    => (WindowsEligible(p) /\ ~ExcludeSelf(p))
              /\ (p \in alive /\ ~ExcludeSelf(p) /\ WindowsEligible(p))
                    => p \in Range(target_processes)

\* C8 witness: on Windows the scan collected a process named antigravity.exe
\* and left out a live companion whose name holds "manager" and whose path
\* holds "antigravity", which the self rules do not exclude.
C8_Witness ==
    /\ system = "Windows"
    /\ pc = "terminate"
    /\ \E q \in Range(target_processes) :
         LowerOrEmpty(Info(q).name) = <<"antigravity", ".exe">>
    /\ \E p \in alive :
         /\ ~ExcludeSelf(p)
         /\ Contains(<<"manager">>, LowerOrEmpty(Info(p).name))
         /\ Contains(<<"antigravity">>, LowerOrEmpty(Info(p).exe))
         /\ p \notin Range(target_processes)

\* the end-to-end scenario: a positive timeout, forced kill allowed, every
\* liveness query answered, every target alive at its terminate(), no target
\* exiting on its own after the timeout, every forced kill effective
Scenario ==
    /\ timeout > 0
    /\ force_kill
    /\ ~query_failed
    /\ target_processes # <<>>
    /\ sigterm = Range(target_processes)
    /\ exited \cap alive_at_timeout = {}
    /\ sigkill \cap alive = {}

\* C9 (end-to-end shutdown): in the scenario close_antigravity returns
\* Success, the controller gets no signal and stays alive, a target that
\* exited in Phase 1 gets no kill(), and every target alive at the timeout
\* gets kill().
C9_EndToEnd ==
    (pc = "closed" /\ Scenario)
        => /\ result = "Success"
           /\ fault = "none"
           /\ SelfPid \in alive
           /\ SelfPid \notin sigterm \cup sigkill
           /\ \A p \in Range(target_processes) :
                /\ p \in exited => p \notin sigkill
                /\ p \in alive_at_timeout => p \in sigkill
           /\ Range(target_processes) \cap alive = {}

\* C9 witness: the scenario with one target that exited in Phase 1 and one
\* that was killed in Phase 2.
C9_Witness ==
    /\ pc = "closed"
    /\ Scenario
    /\ result = "Success"
    /\ \E p \in Range(target_processes) : p \in exited
    /\ \E p \in Range(target_processes) : p \in sigkill

\* C10 (result soundness), as claimed: Success is returned only when no
\* handle of target_processes is alive; a handle still alive at the return
\* makes the result Failed.
C10_ResultSoundness ==
    (pc = "closed" /\ Range(target_processes) \cap alive # {})
        => result = "Failed"

\* the detection rule of the claim for one process, on the lower-cased
\* reported strings, an unreadable field taken as empty
DetectionRule(p) ==
    LET name == IF Info(p).name.some THEN Lower(Info(p).name.str) ELSE <<>>
        path == IF Info(p).exe.some THEN Lower(Info(p).exe.str) ELSE <<>>
    IN  CASE system = "Darwin" ->
                Contains(<<"antigravity", ".app">>, path)
          [] system = "Windows" ->
                \/ name = <<"antigravity", ".exe">>
                \/ name = <<"antigravity">>
                \/ Contains(<<"antigravity">>, path)
          [] OTHER ->
                \/ name = <<"antigravity">>
                \/ Contains(<<"antigravity">>, path)

\* C11 (IsRunning classification): is_process_running returns True exactly
\* when some live process passes the platform's detection rule; a process
\* with an unreadable name or path neither stops the scan nor hides a later
\* match.
C11_IsRunningClassification ==
    running # "none"
        => (running = "true" <=> \E p \in alive : DetectionRule(p))

\* C11 witness: is_process_running returned True although the only matching
\* process comes after the controller, which does not match, and after a
\* process whose name cannot be read.
C11_Witness ==
    /\ running = "true"
    /\ ~DetectionRule(SelfPid)
    /\ \E q \in alive : ~Info(q).name.some /\ ~DetectionRule(q)
         /\ \E p \in alive : p > q /\ DetectionRule(p)

\* some launch request of this call was issued and accepted without raising:
\* open_uri returned True, or a path-based spawn was accepted
LaunchAccepted ==
    \/ uri_outcome = "true"
    \/ \E i \in 1..Len(native_outcomes) : native_outcomes[i] = "spawned"

\* C12 (meaning of a successful launch), as claimed: on every platform and
\* for both values of use_uri, start_antigravity returns True exactly when a
\* launch request was issued and accepted; never True without a request.
C12_LaunchMeaning ==
    pc = "started" => (start_result = "true" <=> LaunchAccepted)

\* the path-based launch was attempted first, raised, and the call has ended
NativeFirstRaised ==
    /\ pc = "started"
    /\ native_outcomes # <<>>
    /\ native_outcomes[1] = "raise"

\* C15 (launch retry rule), as claimed: when the path-based launch raises
\* after the URI launch was tried, nothing more is attempted and the result is
\* False; when it raises in a call made with use_uri=False, exactly one URI
\* launch follows and its outcome is the result.
C15_LaunchRetry ==
    NativeFirstRaised
        => IF start_use_uri
           THEN /\ Len(native_outcomes) = 1
                /\ start_result = "false"
           ELSE /\ Len(native_outcomes) = 1
                /\ uri_outcome # "none"
                /\ start_result = IF uri_outcome = "true" THEN "true"
                                  ELSE "false"

\* C13 (no wrong process terminated), as claimed: no request of any phase,
\* the quit request by application or image name, terminate() or kill(), is
\* directed at the controller, at a process running from the controller's
\* directory, or at a process outside the shutdown-eligible set.
C13_NoWrongProcess ==
    \A p \in quit_directed \cup sigterm \cup sigkill :
        /\ p # SelfPid
        /\ ~UnderSelfDir(p)
        /\ IsTargetForShutdown(p)

\* C16 (re-enumeration between phases), as claimed: a call that did not
\* return at the empty-targets check has enumerated the process table at
\* least twice by the time it returns.
C16_ReEnumeration ==
    (pc = "closed" /\ target_processes # <<>>) => scans >= 2

\* the positions of close_antigravity after Phase 0
AfterPhase0 == {"enumerate"} \cup AfterScan

\* the result as the liveness observations of Phases 1 and 2 give it
ResultFromLiveness ==
    IF target_processes = <<>> \/ still_running = <<>> THEN "Success"
    ELSE IF ~force_kill THEN "Failed"
    ELSE IF final_check = <<>> THEN "Success" ELSE "Failed"

\* C17 (Phase 0 is best-effort): after every outcome of the quit request the
\* call goes on to the enumeration without returning; the 2s wait was taken
\* exactly when the request reported success; on Linux and unknown platforms
\* no request is made; and the result of a call that met no fault is the one
\* the liveness observations of Phases 1 and 2 give, whatever the outcome of
\* the request.
C17_Phase0BestEffort ==
    /\ [](pc \in AfterPhase0 =>
             IF system \in {"Darwin", "Windows"}
             THEN /\ quit_request \in QuitOutcomes
                  /\ grace_waited = (quit_request = "ok")
             ELSE /\ quit_request = "none"
                  /\ ~grace_waited)
    /\ []((pc = "closed" /\ fault = "none") => result = ResultFromLiveness)
    /\ [][pc = "phase0" =>
             /\ pc' \in {"phase0", "enumerate"}
             /\ result' = result
             /\ fault' = fault]_vars

\* C17 witness: the quit request raised (utility missing, or timed out), no
\* wait was taken, and the call still ended with Success after signalling the
\* targets it found.
C17_Witness ==
    /\ pc = "closed"
    /\ quit_request = "raised"
    /\ ~grace_waited
    /\ sigterm # {}
    /\ result = "Success"

\* the Phase 1 timeout elapsed with a target alive, forced kill allowed, and
\* neither a failed liveness query nor a fault of kill() interfered
TimeoutWithSurvivor ==
    /\ pc = "closed"
    /\ force_kill
    /\ left_phase1_at >= 0
    /\ alive_at_timeout # {}
    /\ ~query_failed
    /\ fault # "OSError"

\* C14 (escalation to Phase 2), as claimed: for every timeout T >= 0, T = 0
\* and T below one polling interval included, when the timeout elapses with a
\* target alive and forced kill allowed, the call enters Phase 2 and calls
\* kill() on every target that is still alive at its turn.
C14_Escalation ==
    (TimeoutWithSurvivor /\ timeout >= 0)
        => /\ fault = "none"
           /\ (alive_at_timeout \ exited) \subseteq sigkill

\* the controller takes one iteration of the SIGTERM or the SIGKILL loop
LoopStep ==
    /\ pc \in {"terminate", "kill"}
    /\ (idx' # idx \/ pc' # pc)

\* the handle of the running iteration
LoopHandle ==
    IF pc = "terminate" THEN target_processes[idx] ELSE still_running[idx]

\* the iteration goes on to the next handle or, after the last, to what
\* follows the loop; the call does not return
LoopGoesOn ==
    /\ pc' \in IF pc = "terminate" THEN {"terminate", "poll_head"}
               ELSE {"kill", "final"}
    /\ result' = result
    /\ fault' = fault

\* a handle that is alive at its turn and meets no exception gets the signal
\* of its loop
LoopSignals ==
    (LoopHandle \in alive /\ step_fault' = "none")
        => LoopHandle \in (IF pc = "terminate" THEN sigterm' ELSE sigkill')

\* C18 (per-handle fault tolerance), as claimed: in the SIGTERM and the
\* SIGKILL loop no exception on one handle, a psutil error or any other, ends
\* the loop or makes the call return; every handle alive at its turn that
\* meets no exception gets its signal.
C18_PerHandleTolerance ==
    [][LoopStep => (LoopGoesOn /\ LoopSignals)]_vars

\* C18 amended: the SIGTERM loop goes on after every exception; the SIGKILL
\* loop goes on after NoSuchProcess and AccessDenied, while any other
\* exception there ends the loop and the call returns Failed; every handle
\* alive at its turn that meets no exception gets its signal.
C18_PerHandleToleranceAmended ==
    [][LoopStep =>
          /\ LoopSignals
          /\ \/ LoopGoesOn
             \/ /\ pc = "kill"
                /\ step_fault' \notin {"none", "NoSuchProcess", "AccessDenied"}
                /\ pc' = "closed"
                /\ result' = "Failed"]_vars

\* C18 witness: in both loops the first handle met an exception, stayed alive
\* without its signal, and the second handle got its signal afterwards.
C18_Witness ==
    /\ pc = "final"
    /\ Len(target_processes) >= 2
    /\ target_processes[1] \in alive \ sigterm
    /\ target_processes[2] \in sigterm
    /\ Len(still_running) >= 2
    /\ still_running[1] \in alive \ sigkill
    /\ still_running[2] \in sigkill

\* the phase a position of close_antigravity belongs to; 3 after the return
PhaseOf(p) ==
    CASE p = "phase0" -> 0
      [] p \in {"enumerate", "terminate", "poll_head", "poll", "sleep"} -> 1
      [] p \in {"kill", "final"} -> 2
      [] OTHER -> 3

\* C19 (Close terminates): every call of close_antigravity returns, whatever
\* the targets and the quit utility do; the clock of the polling loop never
\* passes the timeout by a polling interval, which bounds its iterations; and
\* the phases follow each other in order, none entered again once left.
C19_CloseTerminates ==
    /\ (pc = "phase0") ~> (pc = "closed")
    /\ [](pc \in ClosePcs =>
             elapsed < (IF timeout > 0 THEN timeout ELSE 0) + PollInterval)
    /\ [][(pc \in ClosePcs) => PhaseOf(pc') >= PhaseOf(pc)]_vars

\* C19 witness: the call has returned after the quit utility failed to
\* return in time, the polling loop ran up to its timeout and the forced kill
\* had no effect: no target ever exited.
C19_Witness ==
    /\ pc = "closed"
    /\ quit_request = "raised"
    /\ timeout = MaxTimeout
    /\ left_phase1_at >= timeout
    /\ sigkill # {}
    /\ Range(target_processes) \subseteq alive

\* C20 (Close and IsRunning agree), as claimed: when close_antigravity has
\* returned Success and is_process_running is called next, no process having
\* started in between, it returns False, on every platform, also when the
\* controller or a "manager" companion passes the detection rule.
C20_CloseDetectAgree ==
    (pc = "closed" /\ result = "Success" /\ running # "none")
        => running = "false"

\* C21 (no false failure), as claimed: when no exception was met, neither at
\* the top level nor by a liveness query, close_antigravity returns Failed
\* only with a handle of target_processes alive at the return; with
\* force_kill=False a target that exits after the last poll and before the
\* timeout ends does not make the result Failed.
C21_NoFalseFailure ==
    (pc = "closed" /\ result = "Failed" /\ fault = "none" /\ ~query_failed)
        => Range(target_processes) \cap alive # {}

====
